---- MODULE Spec2Model ----
(***************************************************************************)
(* override_field/fields.py: MultiColumnField (a declared attribute that   *)
(* expands to several physical columns), the per-instance view class it    *)
(* generates, and the OverrideField / OverrideFieldAdminMixin pair built   *)
(* by override_field_factory.                                              *)
(*                                                                         *)
(* Python values are strings ("None", "False", "True", "X"); a dict is a   *)
(* sequence of <<key, value>> pairs in insertion order; an exception is    *)
(* the name of its class in err ("none" when the call returned).           *)
(* self.key (the md5 digest of the name, line 48) is read by no operation  *)
(* and is left out.                                                        *)
(***************************************************************************)
EXTENDS Naturals, Sequences, FiniteSets, TLC

VARIABLES
    fld,          \* the MultiColumnField object being declared
    owner,        \* add_to_class calls received by the owning class, in order
    cls_attrs,    \* attribute names bound on the owning class by setattr(cls, name, self)
    cols,         \* cols[i]: the physical-column attributes of model instance i (a dict)
    ret,          \* what the last __get__ returned
    persisted,    \* the row written by the last obj.save()
    base_fields,  \* form.base_fields after the last get_form
    hooks,        \* base_fields as each mixin's get_form returned it, innermost first
    ctx,          \* extra_context as it reached the host's change_view
    mro,          \* the mixins among the admin view's bases, in resolution order
    err,          \* exception raised by the last operation, "none" if it returned
    last          \* the last operation and its inputs

vars == <<fld, owner, cls_attrs, cols, ret, persisted, base_fields, hooks, ctx, mro, err, last>>

\* ---------------------------------------------------------------- bounds

\* Longest sub-field mapping a declared composite field carries.
MaxSubFields == 2

\* ---------------------------------------------------------------- Python helpers

None == "None"

\* Truth value of a Python object: None and False are falsy.
Truthy(v) == v \notin {"None", "False"}

DictKeys(d) == [i \in 1..Len(d) |-> d[i][1]]

DictHas(d, k) == \E i \in 1..Len(d) : d[i][1] = k

DictGet(d, k) == d[CHOOSE i \in 1..Len(d) : d[i][1] = k][2]

\* d[k] = v: an existing key keeps its position, a new key goes last.
DictSet(d, k, v) ==
    IF DictHas(d, k)
    THEN [i \in 1..Len(d) |-> IF d[i][1] = k THEN <<k, v>> ELSE d[i]]
    ELSE Append(d, <<k, v>>)

\* Names bound at module level of fields.py: the imports (lines 3-4, 1) and
\* the three module-level definitions.
ModuleGlobals ==
    {"md5", "Field", "BooleanField", "deconstructible",
     "_generate_instance_class", "MultiColumnField", "override_field_factory"}

\* Builtins the module refers to.
Builtins ==
    {"object", "setattr", "getattr", "isinstance", "dict", "super",
     "TypeError", "NotImplementedError"}

\* Evaluating a bare name inside fields.py: a module global or a builtin
\* resolves, anything else raises NameError.
LookupName(n) == IF n \in ModuleGlobals \cup Builtins THEN "none" ELSE "NameError"

FieldNameSwapped(name, suffix) == suffix \o "_" \o name

\* "%s_%s" % (name, suffix), and field_name + '_' + suffix in the mixin.
FieldName(name, suffix) == name \o "_" \o suffix

\* ---------------------------------------------------------------- declaration

Suffixes == {"enable_override", "override_obj", "amount"}

SubFieldSpec(s) ==
    CASE s = "enable_override" -> "BooleanField"
      [] s = "override_obj" -> "target_field"
      [] OTHER -> "IntegerField"

\* Attribute names a composite field is declared under on the owning class.
AttrNames == {"f", "price"}

DistinctSeqs ==
    {s \in UNION {[1..k -> Suffixes] : k \in 0..MaxSubFields} :
        \A i, j \in 1..Len(s) : i # j => s[i] # s[j]}

\* Sub-field mappings: suffix -> sub-field specification, in declared order.
Mappings == {[i \in 1..Len(s) |-> <<s[i], SubFieldSpec(s[i])>>] : s \in DistinctSeqs}

\* A class attribute / keyword argument that may be absent.
Absent == [present |-> FALSE, map |-> <<>>]

MaybeMappings == {Absent} \cup {[present |-> TRUE, map |-> m] : m \in Mappings}

\* (class attribute, keyword argument) pairs a field class is instantiated
\* with: every mapping on either side alone, and the same mapping on both.
CtorInputs ==
    {p \in MaybeMappings \X MaybeMappings :
        p[1].map = <<>> \/ p[2].map = <<>> \/ p[1].map = p[2].map}

NoRet == [kind |-> "none", instance |-> "", field |-> ""]

NoField == [state |-> "none", fields |-> <<>>, name |-> "", names |-> <<>>, field_names |-> <<>>]

\* MultiColumnField.__init__(self, *args, **kwargs) on a class whose `fields`
\* attribute is cls and with keyword argument fields=kw.
\*   line 40  `self.fields` is an attribute lookup: AttributeError if no class
\*            in the hierarchy defines it;
\*   line 41  a falsy class attribute is replaced by kwargs.pop('fields', None);
\*   line 43  `ValidationError` is a bare name evaluated before the raise;
\*   line 44  a `fields` keyword that was not popped reaches Field.__init__,
\*            which takes no such argument.
MultiColumnField__init__(cls, kw) ==
    IF ~cls.present THEN [err |-> "AttributeError", fields |-> <<>>]
    ELSE LET popped == cls.map = <<>>
             fields == IF popped THEN kw.map ELSE cls.map
         IN  IF fields = <<>>
             THEN [err |-> IF LookupName("ValidationError") = "none"
                           THEN "ValidationError" ELSE LookupName("ValidationError"),
                   fields |-> <<>>]
             ELSE IF ~popped /\ kw.present
             THEN [err |-> "TypeError", fields |-> fields]
             ELSE [err |-> "none", fields |-> fields]

\* cls.add_to_class(field_name, field)
add_to_class(cols_, field_name, field) == Append(cols_, <<field_name, field>>)

\* Lines 53-56: the loop over self.fields.items(), from position i.
RECURSIVE ContributeLoop(_, _, _, _)
ContributeLoop(fields, name, i, acc) ==
    IF i > Len(fields) THEN acc
    ELSE LET suffix == fields[i][1]
             field == fields[i][2]
             field_name == FieldName(name, suffix)
         IN  ContributeLoop(fields, name, i + 1,
                 [field_names |-> DictSet(acc.field_names, suffix, field_name),
                  owner |-> add_to_class(acc.owner, field_name, field)])

\* MultiColumnField.contribute_to_class(self, cls, name), lines 46-62.
contribute_to_class(self, cls_cols, name) ==
    LET done == ContributeLoop(self.fields, name, 1, [field_names |-> <<>>, owner |-> cls_cols])
    IN  [self |-> [state |-> "attached",
                   fields |-> self.fields,
                   name |-> name,
                   names |-> DictKeys(self.fields),
                   field_names |-> done.field_names],
         owner |-> done.owner]

\* ---------------------------------------------------------------- SpecAttach

Untouched == UNCHANGED <<cols, ret, persisted, base_fields, hooks, ctx, mro>>

InitAttach ==
    /\ fld = NoField
    /\ owner = <<>>
    /\ cls_attrs = {}
    /\ cols = <<>>
    /\ ret = NoRet
    /\ persisted = <<>>
    /\ base_fields = <<>>
    /\ hooks = <<>>
    /\ ctx = <<>>
    /\ mro = <<>>
    /\ err = "none"
    /\ last = [op |-> "init", cls |-> Absent, kw |-> Absent, name |-> ""]

\* A field class is instantiated in the body of the owning class.
Construct(cls, kw) ==
    /\ fld.state # "constructed"
    /\ cls_attrs # AttrNames
    /\ LET r == MultiColumnField__init__(cls, kw)
       IN  /\ err' = r.err
           /\ fld' = IF r.err = "none"
                     THEN [NoField EXCEPT !.state = "constructed", !.fields = r.fields]
                     ELSE [NoField EXCEPT !.state = "failed"]
    /\ last' = [op |-> "construct", cls |-> cls, kw |-> kw, name |-> ""]
    /\ UNCHANGED <<owner, cls_attrs>>
    /\ Untouched

\* The owning class is finalized: the host calls contribute_to_class once
\* for the declared field, under the attribute name it was assigned to.
ContributeToClass(name) ==
    /\ fld.state = "constructed"
    /\ name \notin cls_attrs
    /\ LET r == contribute_to_class(fld, owner, name)
       IN  /\ fld' = r.self
           /\ owner' = r.owner
    /\ cls_attrs' = cls_attrs \cup {name}
    /\ err' = "none"
    /\ last' = [op |-> "contribute", cls |-> Absent, kw |-> Absent, name |-> name]
    /\ Untouched

NextAttach ==
    \/ \E p \in CtorInputs : Construct(p[1], p[2])
    \/ \E name \in AttrNames : ContributeToClass(name)

SpecAttach == InitAttach /\ [][NextAttach]_vars

\* C7: class attachment of a field whose mapping has N entries registers on
\* the owning class exactly N further columns, the i-th named
\* "<attribute-name>_<i-th suffix>" and carrying the i-th sub-field, in the
\* declared order of the mapping, and leaves in field_names exactly the
\* pairs suffix -> "<attribute-name>_<suffix>".
C7_AttachRegisters ==
    [][\A name \in AttrNames : ContributeToClass(name) =>
        LET N == Len(fld.fields)
            base == Len(owner)
        IN  /\ Len(owner') = base + N
            /\ SubSeq(owner', 1, base) = owner
            /\ \A i \in 1..N :
                   owner'[base + i] = <<name \o "_" \o fld.fields[i][1], fld.fields[i][2]>>
            /\ fld'.field_names =
                   [i \in 1..N |-> <<fld.fields[i][1], name \o "_" \o fld.fields[i][1]>>]
            /\ (name = "price" /\ fld.fields[1][1] = "amount"
                   => owner'[base + 1][1] = "price_amount")]_vars

\* A second field, of two sub-fields, has been attached under "price" to a
\* class that already carries the columns of a first one.
C7_Witness ==
    /\ last.op = "contribute"
    /\ fld.name = "price"
    /\ Len(fld.fields) = 2
    /\ Len(owner) = 4
    /\ owner[3][1] = "price_amount"
    /\ owner[4][1] = "price_override_obj"

\* C9: construction succeeds with a non-empty mapping as class attribute,
\* succeeds with a non-empty mapping given only as the keyword argument
\* `fields`, and fails with the configuration error (and no other) when
\* neither supplies a mapping.
C9_ConstructContract ==
    last.op = "construct" =>
        /\ (last.cls.map # <<>> /\ ~last.kw.present => err = "none")
        /\ (~last.cls.present /\ last.kw.map # <<>> => err = "none")
        /\ (last.cls.map = <<>> /\ last.kw.map = <<>> => err = "ValidationError")

\* ---------------------------------------------------------------- the model class

\* OverrideField.fields, lines 110-113.
OverrideFields ==
    <<<<"enable_override", "BooleanField">>, <<"override_obj", "target_field">>>>

\* An OverrideField(): the class attribute is the mapping, no `fields` keyword.
OverrideFieldObj ==
    [NoField EXCEPT
        !.state = "constructed",
        !.fields = MultiColumnField__init__([present |-> TRUE, map |-> OverrideFields], Absent).fields]

\* The model class declares two override fields, f and g, each made by its
\* own override_field_factory call with field_name equal to the attribute name.
FieldNames == <<"f", "g">>

RECURSIVE DeclareAll(_, _)
DeclareAll(i, cls_cols) ==
    IF i > Len(FieldNames) THEN cls_cols
    ELSE DeclareAll(i + 1, contribute_to_class(OverrideFieldObj, cls_cols, FieldNames[i]).owner)

ModelColumns == DeclareAll(1, <<>>)

\* The descriptor bound on the class under attribute name n.
Descriptor(n) == contribute_to_class(OverrideFieldObj, <<>>, n).self

Columns == {ModelColumns[i][1] : i \in 1..Len(ModelColumns)}

\* Column value of a freshly constructed model instance: BooleanField(default=False),
\* target_field(null=True, blank=True) (lines 105-112).
DefaultOf(spec) == IF spec = "BooleanField" THEN "False" ELSE None

NewInstance ==
    [c \in Columns |->
        DefaultOf(ModelColumns[CHOOSE i \in 1..Len(ModelColumns) : ModelColumns[i][1] = c][2])]

cls_attrs_all == {FieldNames[i] : i \in 1..Len(FieldNames)}

Instances == {"a", "b"}

\* Values a caller stores in a column of each kind.
ValuesOf(spec) == IF spec = "BooleanField" THEN {"False", "True"} ELSE {None, "X"}

ColumnSpec(c) == ModelColumns[CHOOSE i \in 1..Len(ModelColumns) : ModelColumns[i][1] = c][2]

\* ---------------------------------------------------------------- the view class

\* MultiColumnFieldInstance.__init__(self, instance, field), lines 15-23.
\* The loop body evaluates the bare name _make_property (line 22) once per
\* name; a view comes back only if every evaluation succeeds. An attached
\* field has at least one name (line 42), so the loop body always runs.
MultiColumnFieldInstance__init__(instance, field) ==
    IF Len(field.names) > 0 /\ LookupName("_make_property") # "none"
    THEN [err |-> LookupName("_make_property"), view |-> NoRet]
    ELSE [err |-> "none",
          view |-> [kind |-> "view", instance |-> instance, field |-> field.name]]

\* getattr(self.instance, column, None)
GetColumn(c, instance, column) ==
    IF column \in DOMAIN c[instance] THEN c[instance][column] ELSE None

\* MultiColumnFieldInstance.to_dict(self), lines 25-29, with instance
\* attributes c.
to_dict(c, view) ==
    LET field == Descriptor(view.field)
    IN  [i \in 1..Len(field.names) |->
            <<field.names[i], GetColumn(c, view.instance, DictGet(field.field_names, field.names[i]))>>]

\* MultiColumnField.__get__(self, instance, type), lines 70-78.
__get__(field, instance) ==
    IF instance = None
    THEN [err |-> "none", ret |-> [kind |-> "descriptor", instance |-> "", field |-> field.name]]
    ELSE LET r == MultiColumnFieldInstance__init__(instance, field)
         IN  [err |-> r.err, ret |-> r.view]

\* Lines 89-90: value[name] for each declared name, in order; the first name
\* the dict lacks raises KeyError.
FirstMissing(names, d) ==
    IF \E i \in 1..Len(names) : ~DictHas(d, names[i]) THEN "KeyError" ELSE "none"

__set__Clobber(c, field, instance, value) ==
    IF value.kind \in {"view", "dict"}
    THEN [err |-> MultiColumnFieldInstance__init__(instance, field).err, cols |-> c]
    ELSE [err |-> "TypeError",
          cols |-> [c EXCEPT ![instance] =
                      [col \in DOMAIN c[instance] |->
                          IF \E i \in 1..Len(field.field_names) : field.field_names[i][2] = col
                          THEN None ELSE c[instance][col]]]]

\* MultiColumnField.__set__(self, instance, value), lines 80-92, with instance
\* attributes c; gives the exception and the instance attributes afterwards.
\* Both accepted shapes first build a view of the destination (lines 84, 88).
\* The generated class carries no property unless the loop of line 21-23
\* ran, so setattr(temp_field_instance, name, x) binds x on the temporary
\* view and no column of the instance changes.
__set__(c, field, instance, value) ==
    IF value.kind = "view" /\ value.field = field.name
    THEN [err |-> MultiColumnFieldInstance__init__(instance, field).err, cols |-> c]
    ELSE IF value.kind = "dict"
    THEN LET t == MultiColumnFieldInstance__init__(instance, field)
         IN  [err |-> IF t.err # "none" THEN t.err ELSE FirstMissing(field.names, value.d),
              cols |-> c]
    ELSE [err |-> "TypeError", cols |-> c]

\* ---------------------------------------------------------------- Spec

NoRow == [obj |-> "", row |-> <<>>]

\* Dicts a caller assigns: any subset of the two declared keys.
EnableParts == {<<>>} \cup {<<<<"enable_override", v>>>> : v \in {"False", "True"}}

ObjParts == {<<>>} \cup {<<<<"override_obj", v>>>> : v \in {None, "X"}}

Dicts == {e \o o : e \in EnableParts, o \in ObjParts}

DictValue(d) == [kind |-> "dict", d |-> d, instance |-> "", field |-> ""]

\* A value that is neither a view nor a dict, such as the number 5.
Number == [kind |-> "number", d |-> <<>>, instance |-> "", field |-> ""]

NoValue == [kind |-> "none", d |-> <<>>, instance |-> "", field |-> ""]

\* Views a caller holds: what the last read returned, if it returned one.
ViewsHeld == IF ret.kind = "view" THEN {ret @@ [d |-> <<>>]} ELSE {}

Assignable == {DictValue(d) : d \in Dicts} \cup {Number} \cup ViewsHeld

AdminIdle == UNCHANGED <<persisted, base_fields, hooks, ctx, mro>>

ClassFixed == UNCHANGED <<fld, owner, cls_attrs>>

Init ==
    /\ fld = Descriptor(FieldNames[Len(FieldNames)])
    /\ owner = ModelColumns
    /\ cls_attrs = cls_attrs_all
    /\ cols = [i \in Instances |-> NewInstance]
    /\ ret = NoRet
    /\ persisted = NoRow
    /\ base_fields = <<>>
    /\ hooks = <<>>
    /\ ctx = <<>>
    /\ mro = <<>>
    /\ err = "none"
    /\ last = [op |-> "init", inst |-> "", field |-> "", value |-> NoValue]

\* instance.<column> = v: a plain attribute write to one physical column.
SetColumn(i, c, v) ==
    /\ cols' = [cols EXCEPT ![i][c] = v]
    /\ err' = "none"
    /\ last' = [op |-> "setattr", inst |-> i, field |-> "", value |-> NoValue]
    /\ UNCHANGED ret
    /\ ClassFixed /\ AdminIdle

\* instance.<n> (or Model.<n> when i is None).
Get(i, n) ==
    /\ LET r == __get__(Descriptor(n), i)
       IN  /\ err' = r.err
           /\ ret' = r.ret
    /\ last' = [op |-> "get", inst |-> i, field |-> n, value |-> NoValue]
    /\ UNCHANGED cols
    /\ ClassFixed /\ AdminIdle

\* instance.<n> = value
Set(i, n, value) ==
    /\ LET r == __set__(cols, Descriptor(n), i, value)
       IN  /\ err' = r.err
           /\ cols' = r.cols
    /\ last' = [op |-> "set", inst |-> i, field |-> n, value |-> value]
    /\ UNCHANGED ret
    /\ ClassFixed /\ AdminIdle

\* dst.<n> = src.<n>: the right-hand side is read first, and the assignment
\* runs only if the read returned.
CopyField(dst, src, n) ==
    /\ LET g == __get__(Descriptor(n), src)
           r == __set__(cols, Descriptor(n), dst, g.ret @@ [d |-> <<>>])
       IN  /\ ret' = g.ret
           /\ err' = IF g.err # "none" THEN g.err ELSE r.err
           /\ cols' = IF g.err # "none" THEN cols ELSE r.cols
    /\ last' = [op |-> "copy", inst |-> dst, field |-> n, value |-> [NoValue EXCEPT !.instance = src]]
    /\ ClassFixed /\ AdminIdle

Next ==
    \/ \E i \in Instances, c \in Columns : \E v \in ValuesOf(ColumnSpec(c)) : SetColumn(i, c, v)
    \/ \E i \in Instances \cup {None}, n \in cls_attrs : Get(i, n)
    \/ \E i \in Instances, n \in cls_attrs : \E value \in Assignable : Set(i, n, value)
    \/ \E dst \in Instances, src \in Instances, n \in cls_attrs : CopyField(dst, src, n)

Spec == Init /\ [][Next]_vars

\* C2: right after instance.<n> = {"enable_override": True, "override_obj": X}
\* the assignment has returned, and reading instance.<n> gives a view whose
\* to_dict() is exactly that mapping.
C2_DictAssignReadBack ==
    (/\ last.op = "set"
     /\ last.value.kind = "dict"
     /\ DictHas(last.value.d, "enable_override")
     /\ DictHas(last.value.d, "override_obj")
     /\ DictGet(last.value.d, "enable_override") = "True")
    => /\ err = "none"
       /\ LET g == __get__(Descriptor(last.field), last.inst)
          IN  /\ g.err = "none"
              /\ g.ret.kind = "view"
              /\ to_dict(cols, g.ret) = last.value.d

\* C3: after b.<n> = a.<n> for two instances a and b, the statement has
\* returned and b's sub-field values equal a's.
C3_ViewCopyRoundTrip ==
    (last.op = "copy" /\ last.inst # last.value.instance)
    => /\ err = "none"
       /\ ret.kind = "view"
       /\ to_dict(cols, [kind |-> "view", instance |-> last.inst, field |-> last.field])
            = to_dict(cols, ret)

\* C4: assigning a mapping that lacks a declared sub-field name raises
\* KeyError and changes no column.
C4_MissingKeyRaisesKeyError ==
    [][\A i \in Instances, n \in cls_attrs, d \in Dicts :
        (Set(i, n, DictValue(d)) /\ FirstMissing(Descriptor(n).names, d) # "none")
        => (err' = "KeyError" /\ cols' = cols)]_vars

\* C5: assigning a value that is neither a view of the field's view type nor
\* a mapping raises TypeError, and every column of every instance holds
\* afterwards the value it held before.
C5_TypeErrorNoMutation ==
    [][\A i \in Instances, n \in cls_attrs :
        Set(i, n, Number) => (err' = "TypeError" /\ cols' = cols)]_vars

\* A number was assigned to a.f while a's columns held non-default values,
\* which are still there.
C5_Witness ==
    /\ last.op = "set"
    /\ last.inst = "a"
    /\ last.field = "f"
    /\ last.value.kind = "number"
    /\ err = "TypeError"
    /\ cols["a"]["f_enable_override"] = "True"
    /\ cols["a"]["f_override_obj"] = "X"

\* C6: reading a composite attribute of an instance returns a view, and
\* to_dict() on it gives the current values of the instance's columns.
C6_ReadGivesFreshView ==
    (last.op = "get" /\ last.inst # None)
    => /\ err = "none"
       /\ ret.kind = "view"
       /\ ret.instance = last.inst
       /\ to_dict(cols, ret) =
            <<<<"enable_override", cols[last.inst][last.field \o "_enable_override"]>>,
              <<"override_obj", cols[last.inst][last.field \o "_override_obj"]>>>>

\* ---------------------------------------------------------------- the admin mixin

\* Admin views: the mixins of one or more of the override fields among the
\* bases, in any order.
MROs ==
    {m \in UNION {[1..k -> cls_attrs_all] : k \in 1..Len(FieldNames)} :
        \A i, j \in 1..Len(m) : i # j => m[i] # m[j]}

save_modelNoReset(c, field_name, obj) == [cols |-> c, saved |-> [obj |-> obj, row |-> c[obj]]]

\* OverrideFieldAdminMixin.save_model(self, request, obj, form, change),
\* lines 139-142, of the mixin made for field_name; obj.save() writes the
\* instance's columns as they are then.
save_model(c, field_name, obj) ==
    LET c1 == IF ~Truthy(GetColumn(c, obj, field_name \o "_enable_override"))
              THEN [c EXCEPT ![obj][field_name \o "_override_obj"] = None]
              ELSE c
    IN  [cols |-> c1, saved |-> [obj |-> obj, row |-> c1[obj]]]

\* admin.save_model(...): the first class in resolution order that defines
\* save_model is the first mixin; its body calls obj.save() and no
\* super().save_model, so no later mixin's save_model runs.
admin_save_model(c, order, obj) == save_model(c, order[1], obj)

SelectOut(seq, key) == SelectSeq(seq, LAMBDA x : x # key)

InSeq(seq, key) == \E i \in 1..Len(seq) : seq[i] = key

move_to_front(form, key) ==
    IF form.err # "none" THEN form
    ELSE IF ~InSeq(form.base_fields, key) THEN [err |-> "KeyError", base_fields |-> form.base_fields]
    ELSE [err |-> "none", base_fields |-> <<key>> \o SelectOut(form.base_fields, key)]

\* OrderedDict.move_to_end(key) on form.base_fields: KeyError if the key is
\* not there; an exception already raised propagates.
move_to_end(form, key) ==
    IF form.err # "none" THEN form
    ELSE IF ~InSeq(form.base_fields, key) THEN [err |-> "KeyError", base_fields |-> form.base_fields]
    ELSE [err |-> "none", base_fields |-> Append(SelectOut(form.base_fields, key), key)]

\* OverrideFieldAdminMixin.get_form, lines 133-137, of the mixin made for
\* field_name, given what super().get_form returned.
get_form(field_name, form) ==
    move_to_end(move_to_end(form, field_name \o "_enable_override"),
                field_name \o "_override_obj")

\* admin.get_form(...): each mixin calls super().get_form first, so the
\* host's form is built first and the mixins act on it from the last in
\* resolution order to the first. Gives what each mixin's hook returned,
\* innermost first, up to the first that raised.
RECURSIVE admin_get_form(_, _, _, _)
admin_get_form(order, k, form, trace) ==
    IF k = 0 \/ form.err # "none" THEN [form |-> form, hooks |-> trace]
    ELSE LET out == get_form(order[k], form)
         IN  admin_get_form(order, k - 1, out,
                            IF out.err = "none" THEN Append(trace, out.base_fields) ELSE trace)

\* OverrideFieldAdminMixin.change_view, lines 124-131, of the mixin made for
\* field_name: the override_field_name list handed on to super().change_view.
change_view(field_name, names) == names \o <<field_name>>

RECURSIVE admin_change_view(_, _, _)
admin_change_view(order, k, names) ==
    IF k > Len(order) THEN names
    ELSE admin_change_view(order, k + 1, change_view(order[k], names))

\* ---------------------------------------------------------------- SpecAdmin

InitAdmin ==
    /\ fld = Descriptor(FieldNames[Len(FieldNames)])
    /\ owner = ModelColumns
    /\ cls_attrs = cls_attrs_all
    /\ cols = [i \in Instances |-> NewInstance]
    /\ ret = NoRet
    /\ persisted = NoRow
    /\ base_fields = <<>>
    /\ hooks = <<>>
    /\ ctx = <<>>
    /\ mro \in MROs
    /\ err = "none"
    /\ last = [op |-> "init", inst |-> "", field |-> "", value |-> NoValue]

\* The admin view saves obj; last.value.d keeps obj's columns as the hook
\* found them.
SaveModel(obj) ==
    /\ LET r == admin_save_model(cols, mro, obj)
       IN  /\ cols' = r.cols
           /\ persisted' = r.saved
    /\ err' = "none"
    /\ last' = [op |-> "save", inst |-> obj, field |-> "",
                value |-> [NoValue EXCEPT !.kind = "row", !.d = cols[obj]]]
    /\ UNCHANGED <<ret, base_fields, hooks, ctx, mro>>
    /\ ClassFixed

NextAdmin ==
    \/ \E i \in Instances, c \in Columns : \E v \in ValuesOf(ColumnSpec(c)) : SetColumn(i, c, v)
    \/ \E obj \in Instances : SaveModel(obj)

SpecAdmin == InitAdmin /\ [][NextAdmin]_vars

\* C1: when the admin save hook of an override field's mixin runs on an
\* object whose enable_override is false, the row that hook persists is
\* the object's, with override_obj null, whatever override_obj held before.
C1_SaveNullsDisabledOverride ==
    last.op = "save" =>
        LET n == mro[1]
            before == last.value.d
        IN  ~Truthy(before[n \o "_enable_override"])
            => /\ persisted.obj = last.inst
               /\ persisted.row[n \o "_override_obj"] = None
               /\ persisted.row[n \o "_enable_override"] = before[n \o "_enable_override"]

\* The hook of f's mixin ran on a with f disabled and f_override_obj = "X",
\* and persisted null.
C1_Witness ==
    /\ last.op = "save"
    /\ last.inst = "a"
    /\ mro[1] = "f"
    /\ last.value.d["f_enable_override"] = "False"
    /\ last.value.d["f_override_obj"] = "X"
    /\ persisted.obj = "a"
    /\ persisted.row["f_override_obj"] = None

\* C10: one run of the admin save hook persists null for the override_obj
\* of every mixed-in override field whose enable_override is false.
C10_SaveEnforcesEveryMixin ==
    last.op = "save" =>
        \A k \in 1..Len(mro) :
            ~Truthy(last.value.d[mro[k] \o "_enable_override"])
            => persisted.row[mro[k] \o "_override_obj"] = None

\* ---------------------------------------------------------------- SpecForm

\* A form control of the model besides the override controls.
OtherControls == {"title"}

Controls == Columns \cup OtherControls

\* Field orderings the host's form-building logic produces: any selection
\* of the controls (ModelAdmin.fields / exclude), in any order.
HostOrderings ==
    {s \in UNION {[1..k -> Controls] : k \in 0..Cardinality(Controls)} :
        \A i, j \in 1..Len(s) : i # j => s[i] # s[j]}

\* override_field_name lists a caller passes in extra_context:
\* none, or one already holding a name.
IncomingNames == {<<>>, <<"h">>}

InitForm ==
    /\ InitAdmin

\* The admin view builds the edit form; last.value.d keeps the host's ordering.
GetForm(host) ==
    /\ LET r == admin_get_form(mro, Len(mro), [err |-> "none", base_fields |-> host], <<>>)
       IN  /\ err' = r.form.err
           /\ base_fields' = IF r.form.err = "none" THEN r.form.base_fields ELSE <<>>
           /\ hooks' = r.hooks
    /\ last' = [op |-> "get_form", inst |-> "", field |-> "",
                value |-> [NoValue EXCEPT !.kind = "ordering", !.d = host]]
    /\ UNCHANGED <<cols, ret, persisted, ctx, mro>>
    /\ ClassFixed

\* The admin view renders the edit page.
ChangeView(names) ==
    /\ ctx' = admin_change_view(mro, 1, names)
    /\ err' = "none"
    /\ last' = [op |-> "change_view", inst |-> "", field |-> "",
                value |-> [NoValue EXCEPT !.kind = "names", !.d = names]]
    /\ UNCHANGED <<cols, ret, persisted, base_fields, hooks, mro>>
    /\ ClassFixed

NextForm ==
    \/ \E host \in HostOrderings : GetForm(host)
    \/ \E names \in IncomingNames : ChangeView(names)

SpecForm == InitForm /\ [][NextForm]_vars

\* C8: when get_form returns, then as each mixin's hook returned, the
\* enable_override control and then the override_obj control of that
\* mixin's field were the last two of the ordering, and the fields before
\* them were all the other fields in the order the hook received them.
C8_OverrideControlsLast ==
    (last.op = "get_form" /\ err = "none") =>
        /\ Len(hooks) = Len(mro)
        /\ base_fields = hooks[Len(hooks)]
        /\ \A k \in 1..Len(hooks) :
              LET n == mro[Len(mro) + 1 - k]
                  en == n \o "_enable_override"
                  ob == n \o "_override_obj"
                  got == IF k = 1 THEN last.value.d ELSE hooks[k - 1]
                  out == hooks[k]
                  L == Len(out)
              IN  /\ L = Len(got)
                  /\ L >= 2
                  /\ out[L - 1] = en
                  /\ out[L] = ob
                  /\ SubSeq(out, 1, L - 2) = SelectSeq(got, LAMBDA x : x \notin {en, ob})

\* The view mixes in f's mixin alone; the host put f's controls first and
\* in reverse order; they are now last, after g's controls and the other field.
C8_Witness ==
    /\ last.op = "get_form"
    /\ err = "none"
    /\ mro = <<"f">>
    /\ last.value.d = <<"f_override_obj", "f_enable_override", "g_enable_override", "title", "g_override_obj">>
    /\ base_fields = <<"g_enable_override", "title", "g_override_obj", "f_enable_override", "f_override_obj">>

====
